---- MODULE Spec2Model ----
(***************************************************************************)
(* Model of agent/prompts/prompt_constructor.py: the history-carrying      *)
(* ReactPromptConstructor (transcript, per-message token estimates,        *)
(* running sum, cursor), the action extractor and the URL mapper.          *)
(*                                                                         *)
(* Text is modelled by TLA+ strings; len(s), s + t and s[i:j] are Len,     *)
(* \o and SubSeq.  Token quantities are kept in QUARTER tokens: the code   *)
(* estimates a message as len(msg) / 4 (a float that is exact for every    *)
(* length in reach), so the model stores len(msg) and scales max_tokens    *)
(* and context_length by 4 in the comparison of the truncation loop.       *)
(***************************************************************************)
EXTENDS Integers, Sequences, FiniteSets, TLC

(* ---------------------------------------------------------------------- *)
(* Bounds                                                                  *)
(* ---------------------------------------------------------------------- *)
MaxMsgs == 4

(* ---------------------------------------------------------------------- *)
(* Python str primitives                                                   *)
(* ---------------------------------------------------------------------- *)
\* sub in s
Contains(s, sub) ==
  \E i \in 1..(Len(s) - Len(sub) + 1) : SubSeq(s, i, i + Len(sub) - 1) = sub

\* s.startswith(p)
StartsWith(s, p) ==
  Len(s) >= Len(p) /\ SubSeq(s, 1, Len(p)) = p

\* s.replace(old, new): every non-overlapping occurrence, left to right
RECURSIVE Replace(_, _, _)
Replace(s, old, new) ==
  IF Len(s) < Len(old) THEN s
  ELSE IF SubSeq(s, 1, Len(old)) = old
       THEN new \o Replace(SubSeq(s, Len(old) + 1, Len(s)), old, new)
       ELSE SubSeq(s, 1, 1) \o Replace(SubSeq(s, 2, Len(s)), old, new)

\* s[:n]
Take(s, n) == IF n >= Len(s) THEN s ELSE SubSeq(s, 1, n)

\* sum(list)
RECURSIVE SumSeq(_)
SumSeq(s) == IF s = <<>> THEN 0 ELSE Head(s) + SumSeq(Tail(s))

\* list[k:]
SliceFrom(s, k) == IF k >= Len(s) THEN <<>> ELSE SubSeq(s, k + 1, Len(s))

(* ---------------------------------------------------------------------- *)
(* Instruction (agent/prompts/raw/react.py), texts abridged.  The action   *)
(* splitter of the instruction is the backtick; a TLA+ string cannot hold  *)
(* one, so "@" stands for it in every text of the model.                   *)
(* ---------------------------------------------------------------------- *)
instruction ==
  [ intro    |-> "You are an agent.",
    examples |-> << << "URL: http://shop.com", "Action: @stop [1]@" >> >>,
    keywords |-> << "url", "objective", "observation", "previous_action" >>,
    answer_phrase   |-> "Action: ",
    action_splitter |-> "@" ]

\* get_lm_api_initialize, chat mode: intro, then each example pair in order
RECURSIVE ExampleMsgs(_)
ExampleMsgs(ex) ==
  IF ex = <<>> THEN <<>>
  ELSE << [role |-> "system", name |-> "example_user",
            content |-> Head(ex)[1]],
          [role |-> "system", name |-> "example_assistant",
            content |-> Head(ex)[2]] >>
       \o ExampleMsgs(Tail(ex))

sys_prompt ==
  << [role |-> "system", content |-> instruction.intro] >>
  \o ExampleMsgs(instruction.examples)

RECURSIVE ContentLens(_)
ContentLens(ms) ==
  IF ms = <<>> THEN 0 ELSE Len(Head(ms).content) + ContentLens(Tail(ms))

\* sum(len(msg['content']) for msg in sys_prompt) / 4, in quarter tokens
sys_tokens == ContentLens(sys_prompt)

(* ---------------------------------------------------------------------- *)
(* State                                                                   *)
(* ---------------------------------------------------------------------- *)
VARIABLES
  messages,             \* self.messages
  messages_tokens_list, \* self.messages_tokens_list (quarter tokens)
  messages_token_sum,   \* self.messages_token_sum   (quarter tokens)
  msg_start_idx,        \* self.msg_start_idx
  intent,               \* self.intent: "" after __init__, a message list once set
  intent_tokens,        \* self.intent_tokens (quarter tokens)
  constructor,          \* the class of the object: "Direct", "CoT" or "React"
  gen_config,           \* self.lm_config.gen_config
  URL_MAPPINGS,         \* browser_env.env_config.URL_MAPPINGS, (local, real) pairs in order
  last_call,            \* the method that ran last
  arg,                  \* its argument: a text, or the texts of a construct call
  raised,               \* the exception it raised, "none" if it returned
  returned,             \* the message list it returned
  text_out              \* the text it returned

vars == << messages, messages_tokens_list, messages_token_sum, msg_start_idx,
           intent, intent_tokens, constructor, gen_config, URL_MAPPINGS,
           last_call, arg, raised, returned, text_out >>

transcript == << messages, messages_tokens_list, messages_token_sum, msg_start_idx >>
config     == << constructor, gen_config, URL_MAPPINGS >>

(* ---------------------------------------------------------------------- *)
(* Inputs                                                                  *)
(* ---------------------------------------------------------------------- *)
\* gen_config of the run: max_tokens and context_length in tokens,
\* max_obs_length in tokenizer tokens (0 switches the cap off)
GenConfigs ==
  { [max_tokens |-> 5, context_length |-> 100, max_obs_length |-> 0],
    [max_tokens |-> 5, context_length |-> 40,  max_obs_length |-> 0],
    [max_tokens |-> 5, context_length |-> 25,  max_obs_length |-> 8],
    [max_tokens |-> 5, context_length |-> 18,  max_obs_length |-> 0] }

\* (local, real) pairs of the deployment
DefaultTable ==
  << << "http://h:7770", "http://shop.com" >>,
     << "http://h:9999", "http://reddit.com" >> >>

\* add_message(msg, role) as the episode loop calls it
AssistantReply ==
  [msg |-> "Thought: go. Action: @click [1]@", role |-> "assistant"]

AddInputs ==
  { AssistantReply,
    [msg |-> "OBSERVATION: noted",               role |-> "assistant"],
    [msg |-> "Try again",                        role |-> "user"] }

Objectives   == { "Buy milk" }
Observations == { "[1] link 'A'", "[7] StaticText 'total {k}'" }
PageUrls     == { "http://h:7770/cart" }
PrevActions  == { "click [1]", "Attempt to perfom click on http://h:9999" }

(* ---------------------------------------------------------------------- *)
(* The transcript as a value, and the methods as functions of it           *)
(* ---------------------------------------------------------------------- *)
self ==
  [ messages             |-> messages,
    messages_tokens_list |-> messages_tokens_list,
    messages_token_sum   |-> messages_token_sum,
    msg_start_idx        |-> msg_start_idx ]

\* ReactPromptConstructor.__init__
EmptyTranscript ==
  [ messages             |-> <<>>,
    messages_tokens_list |-> <<>>,
    messages_token_sum   |-> 0,
    msg_start_idx        |-> 0 ]

\* add_message that records the estimate but forgets the running sum
add_message_SumNotUpdated(st, msg, role) ==
  [ st EXCEPT
      !.messages             = Append(@, [role |-> role, content |-> msg]),
      !.messages_tokens_list = Append(@, Len(msg)) ]

\* add_message: append the message and its estimate, add it to the sum
add_message(st, msg, role) ==
  [ st EXCEPT
      !.messages             = Append(@, [role |-> role, content |-> msg]),
      !.messages_tokens_list = Append(@, Len(msg)),
      !.messages_token_sum   = @ + Len(msg) ]

\* remove_obs that pops the message but not its estimate
remove_obs_CostNotPopped(st) ==
  IF st.messages = <<>>
  THEN [st |-> st, raised |-> "IndexError"]
  ELSE LET prev_msg == st.messages[Len(st.messages)]
       IN IF prev_msg.role = "user" /\ StartsWith(prev_msg.content, "OBSERVATION:")
          THEN [st |-> [ st EXCEPT
                          !.messages = SubSeq(@, 1, Len(@) - 1),
                          !.messages_token_sum = @ - Len(prev_msg.content) ],
                raised |-> "none"]
          ELSE [st |-> st, raised |-> "none"]

\* remove_obs that pops the observation but leaves the running sum
remove_obs_SumNotUpdated(st) ==
  IF st.messages = <<>>
  THEN [st |-> st, raised |-> "IndexError"]
  ELSE LET prev_msg == st.messages[Len(st.messages)]
       IN IF prev_msg.role = "user" /\ StartsWith(prev_msg.content, "OBSERVATION:")
          THEN [st |-> [ st EXCEPT
                          !.messages = SubSeq(@, 1, Len(@) - 1),
                          !.messages_tokens_list = SubSeq(@, 1, Len(@) - 1) ],
                raised |-> "none"]
          ELSE [st |-> st, raised |-> "none"]

\* remove_obs: messages[-1] raises IndexError on an empty list; a user
\* message tagged OBSERVATION: is popped with its estimate, and
\* len(content)/4 is subtracted from the sum
remove_obs(st) ==
  IF st.messages = <<>>
  THEN [st |-> st, raised |-> "IndexError"]
  ELSE LET prev_msg == st.messages[Len(st.messages)]
       IN IF prev_msg.role = "user" /\ StartsWith(prev_msg.content, "OBSERVATION:")
          THEN [st |-> [ st EXCEPT
                          !.messages = SubSeq(@, 1, Len(@) - 1),
                          !.messages_tokens_list = SubSeq(@, 1, Len(@) - 1),
                          !.messages_token_sum = @ - Len(prev_msg.content) ],
                raised |-> "none"]
          ELSE [st |-> st, raised |-> "none"]

\* tot_tokens of get_limited_message_history, in quarter tokens
tot_tokens(token_sum) ==
  sys_tokens + intent_tokens + token_sum + 4 * gen_config.max_tokens

\* the loop deleting the oldest message instead of advancing the cursor
RECURSIVE truncate_DropsFront(_)
truncate_DropsFront(st) ==
  IF tot_tokens(st.messages_token_sum) > 4 * gen_config.context_length
  THEN IF st.msg_start_idx >= Len(st.messages_tokens_list)
       THEN [st |-> st, raised |-> "IndexError"]
       ELSE truncate_DropsFront([ st EXCEPT
                        !.messages_token_sum =
                            @ - st.messages_tokens_list[st.msg_start_idx + 1],
                        !.messages = Tail(@),
                        !.messages_tokens_list = Tail(@) ])
  ELSE [st |-> st, raised |-> "none"]

\* the loop written as an if: at most one message is dropped
truncate_OneStep(st) ==
  IF tot_tokens(st.messages_token_sum) > 4 * gen_config.context_length
  THEN IF st.msg_start_idx >= Len(st.messages_tokens_list)
       THEN [st |-> st, raised |-> "IndexError"]
       ELSE [st |-> [ st EXCEPT
                       !.messages_token_sum =
                           @ - st.messages_tokens_list[st.msg_start_idx + 1],
                       !.msg_start_idx = @ + 1 ],
             raised |-> "none"]
  ELSE [st |-> st, raised |-> "none"]

\* the while loop of get_limited_message_history: while the total exceeds
\* the context length, subtract messages_tokens_list[msg_start_idx] (an
\* IndexError once the cursor is not an index of the list) and advance
RECURSIVE truncate(_)
truncate(st) ==
  IF tot_tokens(st.messages_token_sum) > 4 * gen_config.context_length
  THEN IF st.msg_start_idx >= Len(st.messages_tokens_list)
       THEN [st |-> st, raised |-> "IndexError"]
       ELSE truncate([ st EXCEPT
                        !.messages_token_sum =
                            @ - st.messages_tokens_list[st.msg_start_idx + 1],
                        !.msg_start_idx = @ + 1 ])
  ELSE [st |-> st, raised |-> "none"]

\* get_limited_message_history returning messages[:msg_start_idx]
get_limited_message_history_Prefix(st) ==
  LET r == truncate(st)
  IN [ st       |-> r.st,
       raised   |-> r.raised,
       returned |-> IF r.raised = "none"
                    THEN Take(r.st.messages, r.st.msg_start_idx)
                    ELSE <<>> ]

\* get_limited_message_history: the loop, then messages[msg_start_idx:]
get_limited_message_history(st) ==
  LET r == truncate(st)
  IN [ st       |-> r.st,
       raised   |-> r.raised,
       returned |-> IF r.raised = "none"
                    THEN SliceFrom(r.st.messages, r.st.msg_start_idx)
                    ELSE <<>> ]

(* ---------------------------------------------------------------------- *)
(* Initial state                                                           *)
(* ---------------------------------------------------------------------- *)
UnsetIntent == [is_list |-> FALSE, items |-> <<>>]

InitObject ==
  /\ messages = EmptyTranscript.messages
  /\ messages_tokens_list = EmptyTranscript.messages_tokens_list
  /\ messages_token_sum = EmptyTranscript.messages_token_sum
  /\ msg_start_idx = EmptyTranscript.msg_start_idx
  /\ intent = UnsetIntent
  /\ intent_tokens = 0
  /\ last_call = "__init__"
  /\ arg = ""
  /\ raised = "none"
  /\ returned = <<>>
  /\ text_out = ""

Init ==
  /\ InitObject
  /\ constructor = "React"
  /\ gen_config \in GenConfigs
  /\ URL_MAPPINGS = DefaultTable

(* ---------------------------------------------------------------------- *)
(* Calls.  An IndexError, TypeError or AssertionError ends the episode; an *)
(* ActionParsingError is reported to the caller, who may go on.            *)
(* ---------------------------------------------------------------------- *)
Running == raised \in {"none", "ActionParsingError"}

Store(st) ==
  /\ messages' = st.messages
  /\ messages_tokens_list' = st.messages_tokens_list
  /\ messages_token_sum' = st.messages_token_sum
  /\ msg_start_idx' = st.msg_start_idx

\* the episode loop sets the objective message and its estimate
SetIntent(objective) ==
  /\ Running
  /\ constructor = "React"
  /\ ~intent.is_list
  /\ intent' = [is_list |-> TRUE,
                items |-> << [role |-> "user", content |-> objective] >>]
  /\ intent_tokens' = Len(objective)
  /\ last_call' = "set_intent"
  /\ arg' = ""
  /\ raised' = "none"
  /\ returned' = <<>>
  /\ text_out' = ""
  /\ UNCHANGED << transcript, config >>

AddMessage(msg, role) ==
  /\ Running
  /\ Len(messages) < MaxMsgs
  /\ Store(add_message(self, msg, role))
  /\ last_call' = "add_message"
  /\ arg' = ""
  /\ raised' = "none"
  /\ returned' = <<>>
  /\ text_out' = ""
  /\ UNCHANGED << intent, intent_tokens, config >>

RemoveObs ==
  /\ Running
  /\ LET r == remove_obs(self)
     IN /\ Store(r.st)
        /\ raised' = r.raised
  /\ last_call' = "remove_obs"
  /\ arg' = ""
  /\ returned' = <<>>
  /\ text_out' = ""
  /\ UNCHANGED << intent, intent_tokens, config >>

GetLimitedMessageHistory ==
  /\ Running
  /\ LET r == get_limited_message_history(self)
     IN /\ Store(r.st)
        /\ raised' = r.raised
        /\ returned' = r.returned
  /\ last_call' = "get_limited_message_history"
  /\ arg' = ""
  /\ text_out' = ""
  /\ UNCHANGED << intent, intent_tokens, config >>

(* ---------------------------------------------------------------------- *)
(* URL mapper                                                              *)
(* ---------------------------------------------------------------------- *)
\* the loop with a break after the first entry that matches
RECURSIVE MapToReal_FirstMatch(_, _)
MapToReal_FirstMatch(table, url) ==
  IF table = <<>> THEN url
  ELSE LET i == Head(table)[1]
           j == Head(table)[2]
       IN IF Contains(url, i) THEN Replace(url, i, j)
          ELSE MapToReal_FirstMatch(Tail(table), url)

\* for i, j in URL_MAPPINGS.items(): if i in url: url = url.replace(i, j)
RECURSIVE MapToReal(_, _)
MapToReal(table, url) ==
  IF table = <<>> THEN url
  ELSE LET i == Head(table)[1]
           j == Head(table)[2]
       IN MapToReal(Tail(table),
                    IF Contains(url, i) THEN Replace(url, i, j) ELSE url)

map_url_to_real(url) == MapToReal(URL_MAPPINGS, url)

\* map_url_to_local copied from map_url_to_real without swapping i and j
RECURSIVE MapToLocal_NotSwapped(_, _)
MapToLocal_NotSwapped(table, url) ==
  IF table = <<>> THEN url
  ELSE LET i == Head(table)[1]
           j == Head(table)[2]
       IN MapToLocal_NotSwapped(Tail(table),
                     IF Contains(url, i) THEN Replace(url, i, j) ELSE url)

\* for i, j in URL_MAPPINGS.items(): if j in url: url = url.replace(j, i)
RECURSIVE MapToLocal(_, _)
MapToLocal(table, url) ==
  IF table = <<>> THEN url
  ELSE LET i == Head(table)[1]
           j == Head(table)[2]
       IN MapToLocal(Tail(table),
                     IF Contains(url, j) THEN Replace(url, j, i) ELSE url)

map_url_to_local(url) == MapToLocal(URL_MAPPINGS, url)

(* ---------------------------------------------------------------------- *)
(* Action extractor                                                        *)
(* ---------------------------------------------------------------------- *)
action_splitter == instruction.action_splitter

CharAt(s, i) == SubSeq(s, i, i)

\* index of the first action_splitter at or after position from, 0 if none
RECURSIVE FindSplitter(_, _)
FindSplitter(s, from) ==
  IF from > Len(s) THEN 0
  ELSE IF CharAt(s, from) = action_splitter THEN from
  ELSE FindSplitter(s, from + 1)

\* re.search(rf"{action_splitter}(.*?){action_splitter}", response) without
\* re.DOTALL: the leftmost splitter that is followed, before any line
\* break, by another splitter; group 1 is the text between the two
RECURSIVE re_search(_, _)
re_search(s, from) ==
  LET p == FindSplitter(s, from)
      q == FindSplitter(s, p + 1)
  IN IF p = 0 \/ q = 0
     THEN [matched |-> FALSE, group |-> ""]
     ELSE IF ~Contains(SubSeq(s, p + 1, q - 1), "\n")
          THEN [matched |-> TRUE, group |-> SubSeq(s, p + 1, q - 1)]
          ELSE re_search(s, p + 1)

\* _extract_action that falls back to an empty action when nothing matches
_extract_action_DefaultsEmpty(response) ==
  LET match == re_search(response, 1)
  IN [raised |-> "none", text |-> IF match.matched THEN match.group ELSE ""]

\* _extract_action of the Direct, CoT and React constructors
_extract_action(response) ==
  LET match == re_search(response, 1)
  IN IF match.matched
     THEN [raised |-> "none", text |-> match.group]
     ELSE [raised |-> "ActionParsingError", text |-> ""]

\* extract_action: _extract_action, then map_url_to_local on its result
extract_action(response) ==
  LET r == _extract_action(response)
  IN IF r.raised = "none"
     THEN [raised |-> "none", text |-> map_url_to_local(r.text)]
     ELSE r

(* ---------------------------------------------------------------------- *)
(* construct_thought                                                       *)
(* ---------------------------------------------------------------------- *)
\* tokenizer.decode(tokenizer.encode(obs)[:max_obs_length]) when
\* max_obs_length is set; the tokenizer is taken as one token per character
TruncateObs(obs) ==
  IF gen_config.max_obs_length # 0
  THEN Take(obs, gen_config.max_obs_length)
  ELSE obs

\* instruction["template"].format(url=..., previous_action=...)
FormatTemplate(url, previous_action) ==
  "\nERROR MESSAGE: " \o previous_action \o "\nURL: " \o url \o "\n"

\* all([f"{{k}}" not in text for k in keywords]): the f-string is the
\* literal text {k} for every keyword
KeywordsReplaced(text) ==
  \A n \in 1..Len(instruction.keywords) : ~Contains(text, "{k}")

ErrorMsg(previous_action_str) ==
  IF \/ StartsWith(previous_action_str, "Attempt to perfom")
     \/ StartsWith(previous_action_str, "The previous prediction you issued was")
  THEN previous_action_str
  ELSE "None"

\* construct_thought appending the observation before the formatted turn
construct_thought_ObsFirst(st, obs_in, url, previous_action_str) ==
  LET obs     == TruncateObs(obs_in)
      current == FormatTemplate(map_url_to_real(url),
                                map_url_to_real(ErrorMsg(previous_action_str)))
      st2     == add_message(add_message(st, "OBSERVATION: \n" \o obs, "user"),
                             current, "user")
      lim     == get_limited_message_history(st2)
  IN IF ~(KeywordsReplaced(obs) /\ KeywordsReplaced(current))
     THEN [st |-> st, raised |-> "AssertionError", returned |-> <<>>]
     ELSE IF ~intent.is_list
     THEN [st |-> st2, raised |-> "TypeError", returned |-> <<>>]
     ELSE IF lim.raised # "none"
     THEN [st |-> lim.st, raised |-> lim.raised, returned |-> <<>>]
     ELSE [st |-> lim.st, raised |-> "none",
           returned |-> sys_prompt \o intent.items \o lim.returned]

\* construct_thought putting the objective before the preamble
construct_thought_IntentFirst(st, obs_in, url, previous_action_str) ==
  LET obs     == TruncateObs(obs_in)
      current == FormatTemplate(map_url_to_real(url),
                                map_url_to_real(ErrorMsg(previous_action_str)))
      st2     == add_message(add_message(st, current, "user"),
                             "OBSERVATION: \n" \o obs, "user")
      lim     == get_limited_message_history(st2)
  IN IF ~(KeywordsReplaced(obs) /\ KeywordsReplaced(current))
     THEN [st |-> st, raised |-> "AssertionError", returned |-> <<>>]
     ELSE IF ~intent.is_list
     THEN [st |-> st2, raised |-> "TypeError", returned |-> <<>>]
     ELSE IF lim.raised # "none"
     THEN [st |-> lim.st, raised |-> lim.raised, returned |-> <<>>]
     ELSE [st |-> lim.st, raised |-> "none",
           returned |-> intent.items \o sys_prompt \o lim.returned]

construct_thought(st, obs_in, url, previous_action_str) ==
  LET obs     == TruncateObs(obs_in)
      current == FormatTemplate(map_url_to_real(url),
                                map_url_to_real(ErrorMsg(previous_action_str)))
      st2     == add_message(add_message(st, current, "user"),
                             "OBSERVATION: \n" \o obs, "user")
      lim     == get_limited_message_history(st2)
  IN IF ~(KeywordsReplaced(obs) /\ KeywordsReplaced(current))
     THEN [st |-> st, raised |-> "AssertionError", returned |-> <<>>]
     ELSE IF ~intent.is_list
     THEN [st |-> st2, raised |-> "TypeError", returned |-> <<>>]
     ELSE IF lim.raised # "none"
     THEN [st |-> lim.st, raised |-> lim.raised, returned |-> <<>>]
     ELSE [st |-> lim.st, raised |-> "none",
           returned |-> sys_prompt \o intent.items \o lim.returned]

ConstructThought(obs, url, previous_action_str) ==
  /\ Running
  /\ constructor = "React"
  /\ Len(messages) + 2 <= MaxMsgs
  /\ LET r == construct_thought(self, obs, url, previous_action_str)
     IN /\ Store(r.st)
        /\ raised' = r.raised
        /\ returned' = r.returned
  /\ last_call' = "construct_thought"
  /\ arg' = << obs, url, previous_action_str >>
  /\ text_out' = ""
  /\ UNCHANGED << intent, intent_tokens, config >>

\* the template of the single-shot constructors, with its four placeholders
\* filled: template.format(objective=, url=, observation=, previous_action=)
FormatFullTemplate(objective, url, observation, previous_action) ==
  "OBSERVATION:\n" \o observation \o "\nURL: " \o url
    \o "\nOBJECTIVE: " \o objective
    \o "\nPREVIOUS ACTION: " \o previous_action

\* PromptConstructor.get_lm_api_input, chat mode: intro, the example pairs,
\* then the current turn as the user message
get_lm_api_input(intro, examples, current) ==
  << [role |-> "system", content |-> intro] >>
  \o ExampleMsgs(examples)
  \o << [role |-> "user", content |-> current] >>

\* construct that hands back the prompt of the call before when there is one
construct_ReusesLastPrompt(obs_in, url, previous_action_str, objective) ==
  LET obs     == TruncateObs(obs_in)
      current == FormatFullTemplate(objective, map_url_to_real(url), obs,
                                    previous_action_str)
  IN IF ~KeywordsReplaced(current)
     THEN [raised |-> "AssertionError", returned |-> <<>>]
     ELSE [raised |-> "none",
           returned |-> IF returned # <<>> THEN returned
                        ELSE get_lm_api_input(instruction.intro,
                                              instruction.examples, current)]

\* DirectPromptConstructor.construct and CoTPromptConstructor.construct
construct(obs_in, url, previous_action_str, objective) ==
  LET obs     == TruncateObs(obs_in)
      current == FormatFullTemplate(objective, map_url_to_real(url), obs,
                                    previous_action_str)
  IN IF ~KeywordsReplaced(current)
     THEN [raised |-> "AssertionError", returned |-> <<>>]
     ELSE [raised |-> "none",
           returned |-> get_lm_api_input(instruction.intro,
                                         instruction.examples, current)]

Construct(obs, url, previous_action_str, objective) ==
  /\ Running
  /\ constructor \in {"Direct", "CoT"}
  /\ LET r == construct(obs, url, previous_action_str, objective)
     IN /\ raised' = r.raised
        /\ returned' = r.returned
  /\ last_call' = "construct"
  /\ arg' = << obs, url, previous_action_str, objective >>
  /\ text_out' = ""
  /\ UNCHANGED << transcript, intent, intent_tokens, config >>

PrivExtractAction(response) ==
  /\ Running
  /\ LET r == _extract_action(response)
     IN /\ raised' = r.raised
        /\ text_out' = r.text
  /\ last_call' = "_extract_action"
  /\ arg' = response
  /\ returned' = <<>>
  /\ UNCHANGED << transcript, intent, intent_tokens, config >>

ExtractAction(response) ==
  /\ Running
  /\ LET r == extract_action(response)
     IN /\ raised' = r.raised
        /\ text_out' = r.text
  /\ last_call' = "extract_action"
  /\ arg' = response
  /\ returned' = <<>>
  /\ UNCHANGED << transcript, intent, intent_tokens, config >>

MapUrlToReal(url) ==
  /\ Running
  /\ text_out' = map_url_to_real(url)
  /\ last_call' = "map_url_to_real"
  /\ arg' = url
  /\ raised' = "none"
  /\ returned' = <<>>
  /\ UNCHANGED << transcript, intent, intent_tokens, config >>

MapUrlToLocal(url) ==
  /\ Running
  /\ text_out' = map_url_to_local(url)
  /\ last_call' = "map_url_to_local"
  /\ arg' = url
  /\ raised' = "none"
  /\ returned' = <<>>
  /\ UNCHANGED << transcript, intent, intent_tokens, config >>

(* ---------------------------------------------------------------------- *)
(* Specifications                                                          *)
(* ---------------------------------------------------------------------- *)
Next ==
  \/ \E o \in Objectives : SetIntent(o)
  \/ \E a \in AddInputs : AddMessage(a.msg, a.role)
  \/ RemoveObs
  \/ GetLimitedMessageHistory
  \/ \E obs \in Observations, url \in PageUrls, pa \in PrevActions :
        ConstructThought(obs, url, pa)

Spec == Init /\ [][Next]_vars

\* every text over the alphabet of length at most n
RECURSIVE StringsUpTo(_, _)
StringsUpTo(alphabet, n) ==
  IF n = 0 THEN {""}
  ELSE LET S == StringsUpTo(alphabet, n - 1)
       IN S \cup {s \o c : s \in S, c \in alphabet}

\* replies of the model: every short text of splitters, letters and line
\* breaks, and some replies in the format the instruction asks for
MaxReplyLen   == 4
ReplyAlphabet == {"@", "a", "\n"}
Responses ==
  { "Action: @goto http://shop.com/a@", "Action: click [1]",
    "Action: @click [1]", "@type [4] [a\nb]@" }
Replies == StringsUpTo(ReplyAlphabet, MaxReplyLen) \cup Responses

DefaultGenConfig ==
  [max_tokens |-> 5, context_length |-> 100, max_obs_length |-> 0]

\* the extractor called on replies while the transcript grows
InitExtract ==
  /\ InitObject
  /\ constructor = "React"
  /\ gen_config = DefaultGenConfig
  /\ URL_MAPPINGS = DefaultTable

NextExtract ==
  \/ AddMessage(AssistantReply.msg, AssistantReply.role)
  \/ \E r \in Replies : PrivExtractAction(r)
  \/ \E r \in Replies : ExtractAction(r)

SpecExtract == InitExtract /\ [][NextExtract]_vars

\* the URL mapper on short texts under several mapping tables
MaxUrlLen   == 3
UrlAlphabet == {"a", "b", "c"}
Urls        == StringsUpTo(UrlAlphabet, MaxUrlLen)
Tables ==
  { << << "a", "b" >>, << "b", "c" >> >>,
    << << "a", "c" >>, << "b", "a" >> >>,
    << << "a", "bb" >>, << "c", "a" >> >>,
    << << "ab", "c" >> >>,
    << << "a", "bb" >> >>,
    << << "aa", "b" >> >> }

InitUrl ==
  /\ InitObject
  /\ constructor = "React"
  /\ gen_config = DefaultGenConfig
  /\ URL_MAPPINGS \in Tables

NextUrl ==
  \/ \E u \in Urls : MapUrlToReal(u)
  \/ \E u \in Urls : MapUrlToLocal(u)

SpecUrl == InitUrl /\ [][NextUrl]_vars

\* the three constructors building prompts, also from texts that hold a
\* placeholder of the template
ConstructObservations == Observations \cup { "[3] text '{url}'" }
ConstructPrevActions  ==
  PrevActions \cup { "Attempt to perfom type {objective}" }

InitConstruct ==
  /\ InitObject
  /\ constructor \in {"Direct", "CoT", "React"}
  /\ gen_config \in GenConfigs
  /\ URL_MAPPINGS = DefaultTable

NextConstruct ==
  \/ \E o \in Objectives : SetIntent(o)
  \/ \E obs \in ConstructObservations, url \in PageUrls,
        pa \in ConstructPrevActions :
        ConstructThought(obs, url, pa)
  \/ \E obs \in ConstructObservations, url \in PageUrls,
        pa \in ConstructPrevActions, o \in Objectives :
        Construct(obs, url, pa, o)
  \/ \E r \in Responses : ExtractAction(r)

SpecConstruct == InitConstruct /\ [][NextConstruct]_vars

\* appending and truncating only (no remove_obs)
NextAppendTruncate ==
  \/ \E o \in Objectives : SetIntent(o)
  \/ \E a \in AddInputs : AddMessage(a.msg, a.role)
  \/ GetLimitedMessageHistory
  \/ \E obs \in Observations, url \in PageUrls, pa \in PrevActions :
        ConstructThought(obs, url, pa)

SpecAppendTruncate == Init /\ [][NextAppendTruncate]_vars

(* ---------------------------------------------------------------------- *)
(* Properties of the transcript                                            *)
(* ---------------------------------------------------------------------- *)
fixed_overhead == sys_tokens + intent_tokens
reply_reserve  == 4 * gen_config.max_tokens
ceiling        == 4 * gen_config.context_length

LiveCosts == SliceFrom(messages_tokens_list, msg_start_idx)

Truncated == last_call \in {"get_limited_message_history", "construct_thought"}

\* C1 (as claimed): the running sum equals the sum of all recorded
\* per-message estimates in every reachable state, also after truncation
\* has advanced the cursor.
C1_SumEqualsAllCosts ==
  messages_token_sum = SumSeq(messages_tokens_list)

\* C1 (amended): while truncation has not advanced the cursor the running
\* sum equals the sum of the recorded estimates; once it has, the running
\* sum no longer counts what truncation subtracted and is at most that sum.
C1_SumEqualsCostsUntilTruncated ==
  /\ msg_start_idx = 0 => messages_token_sum = SumSeq(messages_tokens_list)
  /\ messages_token_sum <= SumSeq(messages_tokens_list)

C1_Witness ==
  /\ last_call = "remove_obs"
  /\ raised = "none"
  /\ msg_start_idx = 0
  /\ Len(messages) = 3
  /\ messages_token_sum > 0

\* C2: the cursor stays within the transcript, 0 <= msg_start_idx <=
\* len(messages), in every reachable state.
C2_CursorWithinTranscript ==
  0 <= msg_start_idx /\ msg_start_idx <= Len(messages)

\* C3: get_limited_message_history never raises; with the budget exceeded
\* and no live message left it returns the empty slice.
C3_TruncationNeverRaises ==
  last_call = "get_limited_message_history" =>
    /\ raised = "none"
    /\ (fixed_overhead + reply_reserve > ceiling => returned = <<>>)

Fits(k) ==
  fixed_overhead + SumSeq(SliceFrom(messages_tokens_list, k)) + reply_reserve
    <= ceiling

\* C5: a get_limited_message_history that returns leaves the cursor at the
\* smallest index k >= the old cursor for which fixed_overhead +
\* sum(costs[k:]) + reply_reserve <= ceiling (a total equal to the ceiling
\* fits).
C5_CursorAtSmallestFit ==
  [][ (last_call' = "get_limited_message_history" /\ raised' = "none") =>
        /\ msg_start_idx' >= msg_start_idx
        /\ Fits(msg_start_idx')
        /\ \A k \in msg_start_idx..(msg_start_idx' - 1) : ~Fits(k) ]_vars

\* C6: remove_obs on a transcript whose last message is not a user message
\* tagged OBSERVATION: changes nothing and raises nothing; otherwise it
\* removes the last message and its recorded cost and subtracts exactly
\* that recorded cost from the running sum.
C6_RemoveObsEffect ==
  [][ (last_call' = "remove_obs" /\ messages # <<>>) =>
        LET last == messages[Len(messages)]
            n    == Len(messages_tokens_list)
        IN /\ raised' = "none"
           /\ IF last.role = "user" /\ StartsWith(last.content, "OBSERVATION:")
              THEN /\ messages' = SubSeq(messages, 1, Len(messages) - 1)
                   /\ messages_tokens_list' = SubSeq(messages_tokens_list, 1, n - 1)
                   /\ messages_token_sum' =
                        messages_token_sum - messages_tokens_list[n]
                   /\ msg_start_idx' = msg_start_idx
              ELSE UNCHANGED transcript ]_vars

C6_Witness ==
  /\ last_call = "remove_obs"
  /\ raised = "none"
  /\ Len(messages) = 1
  /\ Len(messages_tokens_list) = 1
  /\ StartsWith(messages[1].content, "\nERROR MESSAGE:")
  /\ messages_token_sum = messages_tokens_list[1]

IsSuffix(t, s) ==
  \E k \in 0..Len(s) : t = SliceFrom(s, k)

\* C7: with messages only appended and truncated, the cursor never exceeds
\* the number of appended messages, and the slice a truncation returns is
\* a contiguous suffix of the transcript.
C7_CursorBoundedSliceIsSuffix ==
  /\ msg_start_idx <= Len(messages)
  /\ (last_call = "get_limited_message_history" /\ raised = "none") =>
        /\ IsSuffix(returned, messages)
        /\ Len(returned) = Len(messages) - msg_start_idx

C7_Witness ==
  /\ last_call = "get_limited_message_history"
  /\ raised = "none"
  /\ msg_start_idx > 0
  /\ returned # <<>>
  /\ Len(messages) = 3

(* ---------------------------------------------------------------------- *)
(* Properties of the action extractor                                      *)
(* ---------------------------------------------------------------------- *)
SplitterPositions(s) == {i \in 1..Len(s) : CharAt(s, i) = action_splitter}

\* the text strictly between the first and the second splitter of s
BetweenFirstTwo(s) ==
  LET P == SplitterPositions(s)
      p == CHOOSE i \in P : \A j \in P : i <= j
      q == CHOOSE i \in P \ {p} : \A j \in P \ {p} : i <= j
  IN SubSeq(s, p + 1, q - 1)

\* C8: on every reply with at least two splitters _extract_action returns
\* the text strictly between the first and the second splitter, line
\* breaks included.
C8_ExtractBetweenFirstTwo ==
  (last_call = "_extract_action" /\ Cardinality(SplitterPositions(arg)) >= 2) =>
     /\ raised = "none"
     /\ text_out = BetweenFirstTwo(arg)

\* C9: on every reply with fewer than two splitters extract_action raises
\* ActionParsingError, hands back no action, and leaves the transcript,
\* its estimates, the running sum, the cursor and the objective as they
\* were.
C9_FewerThanTwoSplittersRaises ==
  [][ (last_call' = "extract_action" /\ Cardinality(SplitterPositions(arg')) < 2) =>
        /\ raised' = "ActionParsingError"
        /\ text_out' = ""
        /\ UNCHANGED << transcript, intent, intent_tokens >> ]_vars

C9_Witness ==
  /\ last_call = "extract_action"
  /\ raised = "ActionParsingError"
  /\ Cardinality(SplitterPositions(arg)) = 1
  /\ Len(messages) >= 2

(* ---------------------------------------------------------------------- *)
(* Properties of the URL mapper                                            *)
(* ---------------------------------------------------------------------- *)
\* first-match replacement: only the first entry whose key occurs in the
\* text is applied; from = 1 maps local to real, from = 2 real to local
RECURSIVE FirstMatch(_, _, _)
FirstMatch(table, url, from) ==
  IF table = <<>> THEN url
  ELSE IF Contains(url, Head(table)[from])
       THEN Replace(url, Head(table)[from], Head(table)[3 - from])
       ELSE FirstMatch(Tail(table), url, from)

\* every entry applied in table order, each to the text as the entries
\* before it left it
EveryEntry(table, url, from) ==
  LET f[n \in 0..Len(table)] ==
        IF n = 0 THEN url
        ELSE Replace(f[n - 1], table[n][from], table[n][3 - from])
  IN f[Len(table)]

\* C10 (as claimed): map_url_to_real and map_url_to_local apply only the
\* first entry, in table order, that matches the text.
C10_FirstMatchOnly ==
  /\ last_call = "map_url_to_real" => text_out = FirstMatch(URL_MAPPINGS, arg, 1)
  /\ last_call = "map_url_to_local" => text_out = FirstMatch(URL_MAPPINGS, arg, 2)

\* C10 (amended): map_url_to_real and map_url_to_local apply every entry
\* in table order, each replacing all occurrences of its key in the text
\* as rewritten by the entries before it.
C10_EveryEntryInTableOrder ==
  /\ last_call = "map_url_to_real" => text_out = EveryEntry(URL_MAPPINGS, arg, 1)
  /\ last_call = "map_url_to_local" => text_out = EveryEntry(URL_MAPPINGS, arg, 2)

C10_Witness ==
  /\ last_call = "map_url_to_real"
  /\ Len(URL_MAPPINGS) = 2
  /\ Contains(arg, URL_MAPPINGS[1][1])
  /\ Contains(arg, URL_MAPPINGS[2][1])
  /\ text_out # FirstMatch(URL_MAPPINGS, arg, 1)

\* x and y overlap: one occurs in the other, or an end of one is a start
\* of the other
Overlap(x, y) ==
  \/ Contains(x, y)
  \/ Contains(y, x)
  \/ \E n \in 1..Len(x) :
        n <= Len(y) /\
        \/ SubSeq(x, Len(x) - n + 1, Len(x)) = SubSeq(y, 1, n)
        \/ SubSeq(y, Len(y) - n + 1, Len(y)) = SubSeq(x, 1, n)

\* number of places of s where sub occurs (overlapping places counted)
Occurrences(s, sub) ==
  Cardinality({i \in 1..(Len(s) - Len(sub) + 1) :
                 SubSeq(s, i, i + Len(sub) - 1) = sub})

\* number of occurrences of old that s.replace(old, new) replaces
RECURSIVE Replacements(_, _)
Replacements(s, old) ==
  IF Len(s) < Len(old) THEN 0
  ELSE IF SubSeq(s, 1, Len(old)) = old
       THEN 1 + Replacements(SubSeq(s, Len(old) + 1, Len(s)), old)
       ELSE Replacements(SubSeq(s, 2, Len(s)), old)

\* a table of one (local, real) entry whose two texts do not overlap, and
\* a text that holds the local one, has just been mapped to real
SingleEntryMapped ==
  /\ last_call = "map_url_to_real"
  /\ Len(URL_MAPPINGS) = 1
  /\ ~Overlap(URL_MAPPINGS[1][1], URL_MAPPINGS[1][2])
  /\ Contains(arg, URL_MAPPINGS[1][1])

\* C11 (as claimed): with a single non-overlapping entry,
\* map_url_to_local(map_url_to_real(u)) = u for every u that contains the
\* local text.
C11_RoundTrip ==
  SingleEntryMapped => map_url_to_local(text_out) = arg

\* C11 (amended): with a single non-overlapping entry,
\* map_url_to_local(map_url_to_real(u)) = u for every u that contains the
\* local text, provided the real text occurs in map_url_to_real(u) only
\* where the mapping put it (it has as many occurrences of the real text
\* as replacements were made: none that u brought along, none that arises
\* where a replacement meets the text around it).
C11_RoundTripWithoutForeignReal ==
  ( /\ SingleEntryMapped
    /\ Occurrences(text_out, URL_MAPPINGS[1][2])
         = Replacements(arg, URL_MAPPINGS[1][1]) )
  => map_url_to_local(text_out) = arg

C11_Witness ==
  /\ SingleEntryMapped
  /\ Occurrences(text_out, URL_MAPPINGS[1][2]) = 2
  /\ Replacements(arg, URL_MAPPINGS[1][1]) = 2
  /\ Len(arg) = 3
  /\ map_url_to_local(text_out) = arg

(* ---------------------------------------------------------------------- *)
(* Properties of prompt construction                                       *)
(* ---------------------------------------------------------------------- *)
\* the placeholder tokens of the template: {url}, {objective}, ...
Placeholders ==
  { "{" \o instruction.keywords[n] \o "}" : n \in 1..Len(instruction.keywords) }

\* the formatted current turn of the call that just returned
CurrentTurn ==
  IF constructor = "React"
  THEN messages[Len(messages) - 1].content
  ELSE returned[Len(returned)].content

\* C12: a construct or construct_thought that returns has produced a
\* current turn that contains none of the placeholder tokens {url},
\* {objective}, {observation}, {previous_action} (otherwise its assertion
\* fails).
C12_NoPlaceholderLeft ==
  (last_call \in {"construct", "construct_thought"} /\ raised = "none") =>
     \A ph \in Placeholders : ~Contains(CurrentTurn, ph)

\* C13: construct of the Direct and CoT constructors changes no field of
\* the constructor, and the prompt it returns is determined by the call's
\* own arguments and the instruction: the preamble, then the template
\* filled from the arguments.
C13_ConstructKeepsNoMemory ==
  [][ last_call' = "construct" =>
        /\ UNCHANGED << transcript, intent, intent_tokens, config >>
        /\ raised' = "none" =>
             /\ Len(returned') = Len(sys_prompt) + 1
             /\ SubSeq(returned', 1, Len(sys_prompt)) = sys_prompt
             /\ returned'[Len(returned')] =
                  [ role    |-> "user",
                    content |-> FormatFullTemplate(
                                  arg'[4], map_url_to_real(arg'[2]),
                                  TruncateObs(arg'[1]), arg'[3]) ] ]_vars

C13_Witness ==
  /\ last_call = "construct"
  /\ raised = "none"
  /\ constructor = "CoT"
  /\ arg[3] = "click [1]"
  /\ Contains(returned[Len(returned)].content, "http://shop.com/cart")

(* ---------------------------------------------------------------------- *)
(* Further properties of the transcript                                    *)
(* ---------------------------------------------------------------------- *)
\* C14: messages and messages_tokens_list have the same length and entry
\* i of the list is the estimate len(content) / 4 of message i.
C14_ListsAligned ==
  /\ Len(messages_tokens_list) = Len(messages)
  /\ \A i \in 1..Len(messages) :
        messages_tokens_list[i] = Len(messages[i].content)

C14_Witness ==
  /\ last_call = "remove_obs"
  /\ raised = "none"
  /\ Len(messages) = 3
  /\ msg_start_idx > 0

\* C15: with no live message (cursor at or past the end of the transcript,
\* the empty transcript included) remove_obs removes nothing, leaves the
\* running sum as it is and does not fail.
C15_RemoveObsOnlyLive ==
  [][ (last_call' = "remove_obs" /\ msg_start_idx >= Len(messages)) =>
        /\ raised' = "none"
        /\ UNCHANGED transcript ]_vars

\* C16: get_limited_message_history leaves messages and
\* messages_tokens_list as they are and changes only the cursor and the
\* running sum; the cursor never moves back and the slice it returns
\* starts at the cursor, so a message before the cursor is in no prompt
\* returned afterwards.
C16_TruncationKeepsLists ==
  [][ /\ last_call' = "get_limited_message_history" =>
           /\ messages' = messages
           /\ messages_tokens_list' = messages_tokens_list
           /\ UNCHANGED << intent, intent_tokens, config >>
           /\ raised' = "none" =>
                returned' = SliceFrom(messages, msg_start_idx')
      /\ msg_start_idx' >= msg_start_idx ]_vars

C16_Witness ==
  /\ last_call = "get_limited_message_history"
  /\ raised = "none"
  /\ msg_start_idx >= 1
  /\ Len(messages) = 4
  /\ Len(returned) >= 2

\* the formatted turn and the observation message of a construct_thought
\* call with arguments a = (observation, url, previous action)
TurnOf(a) ==
  [ role    |-> "user",
    content |-> "\nERROR MESSAGE: " \o map_url_to_real(ErrorMsg(a[3]))
                  \o "\nURL: " \o map_url_to_real(a[2]) \o "\n" ]

ObservationOf(a) ==
  [ role |-> "user", content |-> "OBSERVATION: \n" \o TruncateObs(a[1]) ]

\* C17: a construct_thought that returns has appended exactly two messages
\* to the transcript, the formatted turn and then the observation (both
\* role user, the observation as 'OBSERVATION: \n' + the capped
\* observation text), and changed no earlier message; a remove_obs right
\* after it removes exactly that observation and leaves the formatted turn
\* last.
C17_TwoMessagesThenRemove ==
  [][ /\ (last_call' = "construct_thought" /\ raised' = "none") =>
           /\ Len(messages') = Len(messages) + 2
           /\ SubSeq(messages', 1, Len(messages)) = messages
           /\ messages'[Len(messages) + 1] = TurnOf(arg')
           /\ messages'[Len(messages) + 2] = ObservationOf(arg')
      /\ ( /\ last_call = "construct_thought"
           /\ raised = "none"
           /\ last_call' = "remove_obs" ) =>
           /\ raised' = "none"
           /\ messages' = SubSeq(messages, 1, Len(messages) - 1)
           /\ messages'[Len(messages')] = TurnOf(arg) ]_vars

C17_Witness ==
  /\ last_call = "remove_obs"
  /\ raised = "none"
  /\ Len(messages) = 2
  /\ messages[1].role = "assistant"
  /\ StartsWith(messages[2].content, "\nERROR MESSAGE: Attempt")

\* C18: the prompt construct_thought returns is the preamble (intro, then
\* each example pair in instruction order), then the objective message,
\* then the live slice messages[msg_start_idx:] as truncation left it.
C18_PromptIsPreambleObjectiveLive ==
  (last_call = "construct_thought" /\ raised = "none") =>
     LET n    == 1 + 2 * Len(instruction.examples)
         live == Len(messages) - msg_start_idx
     IN /\ live >= 0
        /\ Len(returned) = n + 1 + live
        /\ returned[1] = [role |-> "system", content |-> instruction.intro]
        /\ \A e \in 1..Len(instruction.examples) :
              /\ returned[2 * e].content = instruction.examples[e][1]
              /\ returned[2 * e].name = "example_user"
              /\ returned[2 * e + 1].content = instruction.examples[e][2]
              /\ returned[2 * e + 1].name = "example_assistant"
        /\ << returned[n + 1] >> = intent.items
        /\ \A i \in 1..live : returned[n + 1 + i] = messages[msg_start_idx + i]

C18_Witness ==
  /\ last_call = "construct_thought"
  /\ raised = "none"
  /\ msg_start_idx >= 1
  /\ Len(messages) - msg_start_idx >= 2

\* C20: the running sum equals the sum of the recorded costs of the live
\* messages, messages_tokens_list[msg_start_idx:], and is never negative.
C20_SumIsLiveCosts ==
  /\ messages_token_sum = SumSeq(LiveCosts)
  /\ messages_token_sum >= 0

\* C19: when extract_action returns, its result is map_url_to_local applied
\* to the text between the first two splitters of the reply; the text
\* outside that pair has no influence on it.
C19_ResultIsLocalOfDelimited ==
  (last_call = "extract_action" /\ raised = "none") =>
     text_out = map_url_to_local(BetweenFirstTwo(arg))

\* C21: whenever construct_thought returns a prompt, the last message of
\* the prompt is the observation message this call appended (role user,
\* content 'OBSERVATION: \n' + the capped observation): truncation never
\* discards the observation of the current step.
C21_PromptEndsWithThisObservation ==
  (last_call = "construct_thought" /\ raised = "none") =>
     /\ Len(returned) >= 1
     /\ returned[Len(returned)] = ObservationOf(arg)

====
